---- MODULE Spec2Model ----
(***************************************************************************)
(* Model of chaos.py: three generator threads (logistic map, Lorenz        *)
(* system, random walk) push formatted samples onto one unbounded          *)
(* queue.Queue; one entropy_collector thread pops them for run_time        *)
(* seconds (and then until it sees the queue empty), folds each one into   *)
(* a SHA-256 hasher and appends the hex digest to final_result;            *)
(* run_chaotic_system starts the four threads, joins the collector only    *)
(* and returns final_result[0].                                            *)
(*                                                                         *)
(* Time is counted in ticks of the collector's queue.get timeout (0.1 s).  *)
(* Strings are sequences of code points, byte strings sequences of bytes.  *)
(* The numeric recurrences and time.perf_counter_ns() that fill mix_data   *)
(* are reduced to the iteration count, which keeps the samples of one      *)
(* thread pairwise distinct as the timestamps do.                          *)
(* hashlib.sha256 is represented by a streaming byte-wise compression      *)
(* over a 32-byte state (not the real SHA-256 round function): it keeps    *)
(* what the collector relies on, that update absorbs bytes one after the   *)
(* other, in order, and that hexdigest prints 32 bytes in lowercase hex.   *)
(* Line 23 of chaos.py carries a stray token after the logistic update;   *)
(* the model follows the statement without it.                             *)
(***************************************************************************)
EXTENDS Integers, Sequences, FiniteSets, TLC

\* ---------------------------------------------------------------- bounds
\* step bounds handed to the three generators (10_000 each in run_chaotic_system)
LogisticSteps == 2
LorenzSteps == 1
WalkSteps == 1
\* largest run_time / total_time tried, in ticks
MaxRunTime == 1
\* longest pre-loaded queue handed to entropy_collector when called directly
MaxFeed == 3

\* ------------------------------------------------------ program constants
\* queue.get(timeout=0.1): one tick
TimeoutTicks == 1
\* hashlib.sha256().digest_size
DigestSize == 32

Generators == {"logistic", "lorenz", "walk"}

\* the steps argument of each generator thread
Steps(g) ==
    CASE g = "logistic" -> LogisticSteps
      [] g = "lorenz" -> LorenzSteps
      [] g = "walk" -> WalkSteps

\* Python None, kept apart from every digest (a string of 64 hex characters)
None == "None"

VARIABLES
    now,            \* time.time(), in ticks
    run_time,       \* total_time of run_chaotic_system = run_time of entropy_collector
    pcMain,         \* position of run_chaotic_system
    retval,         \* value returned by run_chaotic_system
    pcG,            \* position of each generator thread
    step,           \* loop variable of each generator: iterations completed
    pushed,         \* history: samples each generator has put, in order
    queue,          \* the Queue: sequence of samples, head first
    pcC,            \* position of entropy_collector
    end_time,       \* local end_time of entropy_collector
    getDeadline,    \* instant at which the pending queue.get times out
    hasher,         \* state of hashlib.sha256()
    consumed,       \* history: samples fed to hasher.update, in order
    final_result,   \* the list final_result
    putsByDeadline, \* history: samples put before the collector's deadline passed (-1 before)
    putsAfterJoin,  \* history: puts each generator made after collector_thread.join() returned
    earlier         \* history: strings, digest and run_time of an earlier call of entropy_collector

vars == <<now, run_time, pcMain, retval, pcG, step, pushed, queue, pcC,
          end_time, getDeadline, hasher, consumed, final_result,
          putsByDeadline, putsAfterJoin, earlier>>

genVars == <<pcG, step, pushed, putsAfterJoin>>
collVars == <<pcC, end_time, getDeadline, hasher, consumed, final_result>>
mainVars == <<pcMain, retval>>

\* ------------------------------------------------------------- strings
\* code points of "_", "-" and of the decimal digit v
Underscore == 95
Minus == 45
Digit(v) == 48 + v

\* Each mix_data is the generator's state after k iterations, formatted, then
\* an underscore, then time.perf_counter_ns(), which increases from one
\* iteration of a thread to the next and is written as k as well.
\* mix_data of logistic_map_thread: f"{r:.6f}_{x:.6f}_{time.perf_counter_ns()}"
LogisticMix(k) == <<Digit(k), Underscore, Digit(k)>>

\* mix_data of lorenz_system_thread: the parameters, then x, y, z, then the timestamp
LorenzMix(k) == <<Digit(k), Underscore, Digit(k), Underscore, Digit(k)>>

\* mix_data of random_walk_thread: f"{position:.6f}_{sys_random_value}_{...}";
\* position is the only field that can carry a sign
WalkMix(k) == <<Minus, Digit(k), Underscore, Digit(k)>>

\* payloads handed to entropy_collector when it is called directly: "a", "b", "c"
\* and one non-ASCII string ("\u00e9")
FeedStrings == {<<97>>, <<98>>, <<99>>, <<233>>}

\* str.encode('utf-8') of one code point
Utf8Char(cp) ==
    IF cp < 128 THEN <<cp>>
    ELSE IF cp < 2048 THEN <<192 + (cp \div 64), 128 + (cp % 64)>>
    ELSE <<224 + (cp \div 4096), 128 + ((cp \div 64) % 64), 128 + (cp % 64)>>

RECURSIVE Utf8Encode(_)
Utf8Encode(s) ==
    IF s = <<>> THEN <<>> ELSE Utf8Char(Head(s)) \o Utf8Encode(Tail(s))

\* ------------------------------------------------------------- hashing
\* hashlib.sha256(): the initial state
Sha256New == [i \in 1..DigestSize |-> (i * 37 + 11) % 256]

\* absorbing one byte: every lane of the state is stepped with it
Sha256Byte(h, b) ==
    [i \in 1..DigestSize |-> (h[i] * 7 + b + i) % 256]

\* hasher.update(bytes), from byte k on
RECURSIVE Sha256From(_, _, _)
Sha256From(h, bytes, k) ==
    IF k > Len(bytes) THEN h
    ELSE Sha256From(Sha256Byte(h, bytes[k]), bytes, k + 1)

\* hasher.update(bytes)
Sha256Update(h, bytes) == Sha256From(h, bytes, 1)

\* the digits of an uppercase hex encoding
HexCharsUpper == <<"0", "1", "2", "3", "4", "5", "6", "7",
                   "8", "9", "A", "B", "C", "D", "E", "F">>

\* the digits hexdigest() writes
HexChars == <<"0", "1", "2", "3", "4", "5", "6", "7",
              "8", "9", "a", "b", "c", "d", "e", "f">>

\* two lowercase hex characters for the digest bytes from position i on
RECURSIVE HexFrom(_, _)
HexFrom(h, i) ==
    IF i > Len(h) THEN ""
    ELSE HexChars[(h[i] \div 16) + 1] \o HexChars[(h[i] % 16) + 1] \o HexFrom(h, i + 1)

\* hasher.hexdigest(): the digest bytes as one string of lowercase hex
HexDigest(h) == HexFrom(h, 1)

\* --------------------------------------------------------------- queue
\* a put on a full Queue(maxsize=1) whose Full is swallowed: the item is lost
QueuePutDrop(q, item) == IF Len(q) >= 1 THEN q ELSE Append(q, item)

\* queue.put(item) on an unbounded Queue
QueuePut(q, item) == Append(q, item)

\* a get that returns the newest item (a LifoQueue)
QueueGetLifo(q) == [item |-> q[Len(q)], rest |-> SubSeq(q, 1, Len(q) - 1)]

\* a get that returns the oldest item and leaves it on the queue
QueueGetPeek(q) == [item |-> Head(q), rest |-> q]

\* a successful queue.get(): the item returned and the queue left behind
QueueGet(q) == [item |-> Head(q), rest |-> Tail(q)]

\* queue.empty()
QueueEmpty(q) == q = <<>>

\* ------------------------------------------------------------ the clock
\* number of samples the generators have put so far
TotalPushed == Len(pushed["logistic"]) + Len(pushed["lorenz"]) + Len(pushed["walk"])

\* time.time() is read only by entropy_collector, relative to its own start, and
\* every reading from end_time on compares alike: the clock is followed from
\* the start of the collector to end_time
ClockCap == IF pcC \in {"idle", "init"} THEN 0 ELSE end_time

Tick ==
    /\ now < ClockCap
    /\ now' = now + 1
    /\ putsByDeadline' = IF now' >= end_time THEN TotalPushed ELSE putsByDeadline
    /\ UNCHANGED <<run_time, earlier, mainVars, genVars, queue, collVars>>

\* ----------------------------------------------------------- generators
\* a generator that also mixes its sample into the collector's hasher
GenIterateMixing(g, data) ==
    /\ pcG[g] = "run"
    /\ step[g] < Steps(g)
    /\ LET sample == [gen |-> g, seq |-> step[g] + 1, data |-> data]
       IN /\ queue' = QueuePut(queue, sample)
          /\ pushed' = [pushed EXCEPT ![g] = Append(@, sample)]
    /\ step' = [step EXCEPT ![g] = @ + 1]
    /\ pcG' = [pcG EXCEPT ![g] = IF step'[g] = Steps(g) THEN "done" ELSE "run"]
    /\ putsAfterJoin' = IF pcMain = "returned"
                        THEN [putsAfterJoin EXCEPT ![g] = @ + 1]
                        ELSE putsAfterJoin
    /\ \E chunk \in {Utf8Encode(data)} : hasher' = Sha256Update(hasher, chunk)
    /\ UNCHANGED <<now, run_time, earlier, mainVars, pcC, end_time, getDeadline, consumed,
                   final_result, putsByDeadline>>

\* a generator putting into a Queue(maxsize=1): put blocks while it is full
GenIterateBounded(g, data) ==
    /\ pcG[g] = "run"
    /\ step[g] < Steps(g)
    /\ Len(queue) < 1
    /\ LET sample == [gen |-> g, seq |-> step[g] + 1, data |-> data]
       IN /\ queue' = QueuePut(queue, sample)
          /\ pushed' = [pushed EXCEPT ![g] = Append(@, sample)]
    /\ step' = [step EXCEPT ![g] = @ + 1]
    /\ pcG' = [pcG EXCEPT ![g] = IF step'[g] = Steps(g) THEN "done" ELSE "run"]
    /\ putsAfterJoin' = IF pcMain = "returned"
                        THEN [putsAfterJoin EXCEPT ![g] = @ + 1]
                        ELSE putsAfterJoin
    /\ UNCHANGED <<now, run_time, earlier, mainVars, collVars, putsByDeadline>>

\* one iteration of a generator's for loop: advance, sleep, format, queue.put;
\* after the put of the last iteration range(steps) is exhausted and the
\* thread's target returns, which no other thread can tell from the put
GenIterate(g, data) ==
    /\ pcG[g] = "run"
    /\ step[g] < Steps(g)
    /\ LET sample == [gen |-> g, seq |-> step[g] + 1, data |-> data]
       IN /\ queue' = QueuePut(queue, sample)
          /\ pushed' = [pushed EXCEPT ![g] = Append(@, sample)]
    /\ step' = [step EXCEPT ![g] = @ + 1]
    /\ pcG' = [pcG EXCEPT ![g] = IF step'[g] = Steps(g) THEN "done" ELSE "run"]
    /\ putsAfterJoin' = IF pcMain = "returned"
                        THEN [putsAfterJoin EXCEPT ![g] = @ + 1]
                        ELSE putsAfterJoin
    /\ UNCHANGED <<now, run_time, earlier, mainVars, collVars, putsByDeadline>>

logistic_map_thread == GenIterate("logistic", LogisticMix(step["logistic"] + 1))

lorenz_system_thread == GenIterate("lorenz", LorenzMix(step["lorenz"] + 1))

random_walk_thread == GenIterate("walk", WalkMix(step["walk"] + 1))

\* ------------------------------------------------------------ collector
\* end_time = time.time() + run_time; hasher = hashlib.sha256()
CollectorInit ==
    /\ pcC = "init"
    /\ end_time' = now + run_time
    /\ hasher' = Sha256New
    /\ putsByDeadline' = IF now >= end_time' THEN TotalPushed ELSE -1
    /\ pcC' = "check"
    /\ UNCHANGED <<now, run_time, earlier, mainVars, genVars, queue, getDeadline,
                   consumed, final_result>>

\* while time.time() < end_time or queue.empty(): the negation is lost
CollectorCheckInverted ==
    /\ pcC = "check"
    /\ IF now < end_time \/ QueueEmpty(queue)
       THEN /\ pcC' = "get"
            /\ getDeadline' = now + TimeoutTicks
       ELSE /\ pcC' = "final"
            /\ getDeadline' = getDeadline
    /\ UNCHANGED <<now, run_time, earlier, mainVars, genVars, queue, end_time, hasher,
                   consumed, final_result, putsByDeadline>>

\* while time.time() < end_time and not queue.empty(): leaves on an empty queue
CollectorCheckAnd ==
    /\ pcC = "check"
    /\ IF now < end_time /\ ~QueueEmpty(queue)
       THEN /\ pcC' = "get"
            /\ getDeadline' = now + TimeoutTicks
       ELSE /\ pcC' = "final"
            /\ getDeadline' = getDeadline
    /\ UNCHANGED <<now, run_time, earlier, mainVars, genVars, queue, end_time, hasher,
                   consumed, final_result, putsByDeadline>>

\* while time.time() < end_time or not queue.empty():
CollectorCheck ==
    /\ pcC = "check"
    /\ IF now < end_time \/ ~QueueEmpty(queue)
       THEN /\ pcC' = "get"
            /\ getDeadline' = now + TimeoutTicks
       ELSE /\ pcC' = "final"
            /\ getDeadline' = getDeadline
    /\ UNCHANGED <<now, run_time, earlier, mainVars, genVars, queue, end_time, hasher,
                   consumed, final_result, putsByDeadline>>

\* a fresh hashlib.sha256() for every chunk instead of one running hasher
CollectorGetItemRestart ==
    /\ pcC = "get"
    /\ ~QueueEmpty(queue)
    /\ \E r \in {QueueGet(queue)} :
         \E chunk \in {Utf8Encode(r.item.data)} :
            /\ queue' = r.rest
            /\ hasher' = Sha256Update(Sha256New, chunk)
            /\ consumed' = Append(consumed, r.item)
    /\ getDeadline' = 0
    /\ pcC' = "check"
    /\ UNCHANGED <<now, run_time, earlier, mainVars, genVars, end_time, final_result, putsByDeadline>>

\* queue.get(timeout=0.1) returns an item, data_chunk; then
\* hasher.update(data_chunk.encode('utf-8')). r is the outcome of the get and
\* chunk the encoded bytes, each computed once.
CollectorGetItem ==
    /\ pcC = "get"
    /\ ~QueueEmpty(queue)
    /\ \E r \in {QueueGet(queue)} :
         \E chunk \in {Utf8Encode(r.item.data)} :
            /\ queue' = r.rest
            /\ hasher' = Sha256Update(hasher, chunk)
            /\ consumed' = Append(consumed, r.item)
    /\ getDeadline' = 0
    /\ pcC' = "check"
    /\ UNCHANGED <<now, run_time, earlier, mainVars, genVars, end_time, final_result, putsByDeadline>>

\* a collector that folds a marker into the hash each time queue.get times out
CollectorGetTimeoutCounted ==
    /\ pcC = "get"
    /\ QueueEmpty(queue)
    /\ now >= getDeadline
    /\ hasher' = Sha256Update(hasher, <<0>>)
    /\ getDeadline' = 0
    /\ pcC' = "check"
    /\ UNCHANGED <<now, run_time, earlier, mainVars, genVars, queue, end_time,
                   consumed, final_result, putsByDeadline>>

\* a collector whose thread dies of the Empty that queue.get raises
CollectorGetTimeoutUncaught ==
    /\ pcC = "get"
    /\ QueueEmpty(queue)
    /\ now >= getDeadline
    /\ getDeadline' = 0
    /\ pcC' = "done"
    /\ UNCHANGED <<now, run_time, earlier, mainVars, genVars, queue, end_time, hasher,
                   consumed, final_result, putsByDeadline>>

\* a collector that puts a marker on the queue when queue.get times out
CollectorGetTimeoutMarks ==
    /\ pcC = "get"
    /\ QueueEmpty(queue)
    /\ now >= getDeadline
    /\ queue' = QueuePut(queue, [gen |-> "collector", seq |-> 0, data |-> ""])
    /\ getDeadline' = 0
    /\ pcC' = "check"
    /\ UNCHANGED <<now, run_time, earlier, mainVars, genVars, end_time, hasher,
                   consumed, final_result, putsByDeadline>>

\* queue.get(timeout=0.1) raises Empty after the timeout; except: pass
CollectorGetTimeout ==
    /\ pcC = "get"
    /\ QueueEmpty(queue)
    /\ now >= getDeadline
    /\ getDeadline' = 0
    /\ pcC' = "check"
    /\ UNCHANGED <<now, run_time, earlier, mainVars, genVars, queue, end_time, hasher,
                   consumed, final_result, putsByDeadline>>

\* the digest appended twice
CollectorFinalTwice ==
    /\ pcC = "final"
    /\ final_result' = Append(Append(final_result, HexDigest(hasher)), HexDigest(hasher))
    /\ pcC' = "done"
    /\ UNCHANGED <<now, run_time, earlier, mainVars, genVars, queue, end_time, getDeadline,
                   hasher, consumed, putsByDeadline>>

\* the digest appended only when some chunk was hashed
CollectorFinalSkipEmpty ==
    /\ pcC = "final"
    /\ final_result' = IF consumed = <<>> THEN final_result
                       ELSE Append(final_result, HexDigest(hasher))
    /\ pcC' = "done"
    /\ UNCHANGED <<now, run_time, earlier, mainVars, genVars, queue, end_time, getDeadline,
                   hasher, consumed, putsByDeadline>>

\* final_hash = hasher.hexdigest(); final_result.append(final_hash)
CollectorFinal ==
    /\ pcC = "final"
    /\ final_result' = Append(final_result, HexDigest(hasher))
    /\ pcC' = "done"
    /\ UNCHANGED <<now, run_time, earlier, mainVars, genVars, queue, end_time, getDeadline,
                   hasher, consumed, putsByDeadline>>

entropy_collector ==
    \/ CollectorInit
    \/ CollectorCheck
    \/ CollectorGetItem
    \/ CollectorGetTimeout
    \/ CollectorFinal

\* --------------------------------------------------------- orchestrator
\* t1.start(), t2.start(), t3.start()
StartGenerator(at, g, next) ==
    /\ pcMain = at
    /\ pcG' = [pcG EXCEPT ![g] = "run"]
    /\ pcMain' = next
    /\ UNCHANGED <<now, run_time, earlier, retval, step, pushed, putsAfterJoin, queue,
                   collVars, putsByDeadline>>

\* collector_thread.start()
StartCollector ==
    /\ pcMain = "startC"
    /\ pcC' = "init"
    /\ pcMain' = "join"
    /\ UNCHANGED <<now, run_time, earlier, retval, genVars, queue, end_time, getDeadline,
                   hasher, consumed, final_result, putsByDeadline>>

\* the join left out: the orchestrator returns without waiting
JoinAndReturnNoWait ==
    /\ pcMain = "join"
    /\ retval' = IF final_result # <<>> THEN final_result[1] ELSE None
    /\ pcMain' = "returned"
    /\ UNCHANGED <<now, run_time, earlier, genVars, queue, collVars, putsByDeadline>>

\* an orchestrator that joins the three generator threads as well
JoinAllAndReturn ==
    /\ pcMain = "join"
    /\ pcC = "done"
    /\ \A g \in Generators : pcG[g] = "done"
    /\ retval' = IF final_result # <<>> THEN final_result[1] ELSE None
    /\ pcMain' = "returned"
    /\ UNCHANGED <<now, run_time, earlier, genVars, queue, collVars, putsByDeadline>>

\* collector_thread.join() returns once the collector thread has ended; then
\* return final_result[0] if final_result else None
JoinAndReturn ==
    /\ pcMain = "join"
    /\ pcC = "done"
    /\ retval' = IF final_result # <<>> THEN final_result[1] ELSE None
    /\ pcMain' = "returned"
    /\ UNCHANGED <<now, run_time, earlier, genVars, queue, collVars, putsByDeadline>>

run_chaotic_system ==
    \/ StartGenerator("start1", "logistic", "start2")
    \/ StartGenerator("start2", "lorenz", "start3")
    \/ StartGenerator("start3", "walk", "startC")
    \/ StartCollector
    \/ JoinAndReturn

\* ------------------------------------------------------- specifications
\* state shared by both entry points before any thread runs
InitCommon ==
    /\ now = 0
    /\ retval = None
    /\ pcG = [g \in Generators |-> "new"]
    /\ step = [g \in Generators |-> 0]
    /\ pushed = [g \in Generators |-> <<>>]
    /\ putsAfterJoin = [g \in Generators |-> 0]
    /\ end_time = 0
    /\ getDeadline = 0
    /\ hasher = Sha256New
    /\ consumed = <<>>
    /\ final_result = <<>>
    /\ putsByDeadline = -1
    /\ earlier = {}

\* run_chaotic_system(total_time): queue = Queue(); final_result = []
Init ==
    /\ InitCommon
    /\ run_time \in 0..MaxRunTime
    /\ pcMain = "start1"
    /\ pcC = "idle"
    /\ queue = <<>>

Next ==
    \/ Tick
    \/ logistic_map_thread
    \/ lorenz_system_thread
    \/ random_walk_thread
    \/ entropy_collector
    \/ run_chaotic_system

Spec == Init /\ [][Next]_vars

\* some thread that can take a step, or the clock, eventually does
FairSpec == Spec /\ WF_vars(Next)

\* queues a caller can hand to entropy_collector: up to MaxFeed strings
FeedQueues ==
    UNION {[1..n -> FeedStrings] : n \in 0..MaxFeed}

\* entropy_collector(queue, final_result, run_time) called directly
InitCollector ==
    /\ InitCommon
    /\ run_time \in 0..MaxRunTime
    /\ pcMain = "direct"
    /\ pcC = "init"
    /\ \E f \in FeedQueues :
          queue = [i \in 1..Len(f) |-> [gen |-> "caller", seq |-> i, data |-> f[i]]]

NextCollector ==
    \/ Tick
    \/ entropy_collector

SpecCollector == InitCollector /\ [][NextCollector]_vars

FairSpecCollector == SpecCollector /\ WF_vars(NextCollector)

\* an exception of os.urandom that takes the whole process down
WalkFailsExits ==
    /\ pcG["walk"] = "run"
    /\ step["walk"] < Steps("walk")
    /\ pcG' = [g \in Generators |-> "failed"]
    /\ pcC' = "done"
    /\ UNCHANGED <<now, run_time, earlier, mainVars, step, pushed, putsAfterJoin, queue,
                   end_time, getDeadline, hasher, consumed, final_result, putsByDeadline>>

\* os.urandom(8) raises in an iteration of random_walk_thread: the exception
\* leaves the thread's target and that thread ends, before its put
WalkFails ==
    /\ pcG["walk"] = "run"
    /\ step["walk"] < Steps("walk")
    /\ pcG' = [pcG EXCEPT !["walk"] = "failed"]
    /\ UNCHANGED <<now, run_time, earlier, mainVars, step, pushed, putsAfterJoin, queue,
                   collVars, putsByDeadline>>

NextFaulty ==
    \/ Next
    \/ WalkFails

SpecFaulty == Init /\ [][NextFaulty]_vars

FairSpecFaulty == SpecFaulty /\ WF_vars(NextFaulty)

\* entropy_collector called a second time, with a fresh final_result, a
\* run_time of its own and a queue holding the strings the first call
\* dequeued, in the same order
Rerun ==
    /\ pcMain = "direct"
    /\ pcC = "done"
    /\ earlier = {}
    /\ earlier' = {[data |-> [i \in 1..Len(consumed) |-> consumed[i].data],
                    digest |-> final_result[1],
                    run_time |-> run_time]}
    /\ run_time' \in 0..MaxRunTime
    /\ queue' = [i \in 1..Len(consumed) |->
                    [gen |-> "again", seq |-> i, data |-> consumed[i].data]]
    /\ final_result' = <<>>
    /\ consumed' = <<>>
    /\ putsByDeadline' = -1
    /\ pcC' = "init"
    /\ UNCHANGED <<now, mainVars, genVars, end_time, getDeadline, hasher>>

NextTwoRuns ==
    \/ NextCollector
    \/ Rerun

SpecTwoRuns == InitCollector /\ [][NextTwoRuns]_vars

\* ================================================================ claims

\* C1: for every run_time > 0, under fair scheduling of the threads and an
\* advancing clock, the collector leaves its loop, the join completes and
\* run_chaotic_system returns.
C1_RunReturns ==
    (pcMain = "start1" /\ run_time > 0) ~> (pcMain = "returned" /\ pcC = "done")

\* a returned run with run_time > 0 whose collector popped after its deadline
C1_Witness ==
    /\ pcMain = "returned"
    /\ run_time > 0
    /\ putsByDeadline # -1
    /\ Len(consumed) > putsByDeadline

\* C2: what the collector pops after its deadline is bounded by a quantity
\* fixed when the deadline passes, whatever the generators put afterwards: it
\* never pops more samples in all than had been put by then.
C2_BoundedDrain ==
    putsByDeadline # -1 => Len(consumed) <= putsByDeadline

\* the bytes hasher.update received for a sequence of samples, concatenated
RECURSIVE Payload(_)
Payload(samples) ==
    IF samples = <<>> THEN <<>>
    ELSE Utf8Encode(Head(samples).data) \o Payload(Tail(samples))

DataOf(samples) == [i \in 1..Len(samples) |-> samples[i].data]

\* C3: the digest the collector appends is the hash of the concatenation of the
\* encoded samples it dequeued, in the order it dequeued them; popping "a", "b",
\* "c" in that order gives the hash of "abc".
C3_DigestOfConcatenation ==
    pcC = "done" =>
        /\ final_result = <<HexDigest(Sha256Update(Sha256New, Payload(consumed)))>>
        /\ (DataOf(consumed) = <<(<<97>>), (<<98>>), (<<99>>)>> =>
               final_result[1] = HexDigest(Sha256Update(Sha256New, <<97, 98, 99>>)))

\* the collector has finished after popping "a", "b", "c" in that order
C3_Witness ==
    /\ pcC = "done"
    /\ DataOf(consumed) = <<(<<97>>), (<<98>>), (<<99>>)>>
    /\ queue = <<>>

\* C4: the samples of any one generator are consumed in the order that
\* generator put them: along the consumption order the sequence numbers of
\* one producer are strictly increasing.
C4_PerProducerFifo ==
    \A i, j \in 1..Len(consumed) :
        (i < j /\ consumed[i].gen = consumed[j].gen) => consumed[i].seq < consumed[j].seq

\* both samples of the logistic thread were consumed with a sample of another
\* producer between them
C4_Witness ==
    \E i, j, k \in 1..Len(consumed) :
        /\ i < k /\ k < j
        /\ consumed[i].gen = "logistic" /\ consumed[j].gen = "logistic"
        /\ consumed[k].gen # "logistic"

\* C5: every sample put on the queue has been folded into the hash at most
\* once, and nothing was folded that no generator put.
C5_NoSampleTwice ==
    /\ \A i, j \in 1..Len(consumed) : consumed[i] = consumed[j] => i = j
    /\ \A i \in 1..Len(consumed) :
          \E n \in 1..Len(pushed[consumed[i].gen]) : pushed[consumed[i].gen][n] = consumed[i]

\* every sample of the run was put and consumed
C5_Witness ==
    /\ Len(consumed) = LogisticSteps + LorenzSteps + WalkSteps
    /\ queue = <<>>

\* C6: every sample put on the queue is in the end consumed or discarded: once
\* every thread has finished and run_chaotic_system has returned, no sample is
\* left in the channel, samples put after the collector left its loop included.
C6_NoSampleLeftBehind ==
    (pcMain = "returned" /\ pcC = "done" /\ \A g \in Generators : pcG[g] = "done")
        => queue = <<>>

\* C7: once collector_thread.join() has returned every generator is stopped at
\* its next iteration, so it puts at most one further sample.
C7_GeneratorsCancelled ==
    \A g \in Generators : putsAfterJoin[g] <= 1

\* C8: final_result never holds more than one digest, holds exactly one once
\* the collector has finished, and is not changed after that.
C8_FinalizedOnce ==
    /\ [](Len(final_result) <= 1)
    /\ [](pcC = "done" <=> Len(final_result) = 1)
    /\ [][pcC = "done" => final_result' = final_result]_vars

\* run_chaotic_system has returned the one digest while samples put since the
\* collector's last look at the queue are still waiting
C8_Witness ==
    /\ pcC = "done"
    /\ Len(final_result) = 1
    /\ queue # <<>>
    /\ pcMain = "returned"

\* C9: when run_chaotic_system has returned, its value is the digest the
\* collector appended, and None could only stand for an empty final_result;
\* the value returned is never None.
C9_ReturnsDigest ==
    pcMain = "returned" =>
        /\ retval # None
        /\ final_result # <<>>
        /\ retval = final_result[1]
        /\ retval = HexDigest(hasher)

\* run_chaotic_system has returned the digest of at least one sample
C9_Witness ==
    /\ pcMain = "returned"
    /\ retval = final_result[1]
    /\ consumed # <<>>

\* C10: entropy_collector called with run_time = 0 on a queue that stays empty
\* finishes, and final_result then holds the digest of a hash state that was
\* never updated.
C10_EmptyDigest ==
    (pcC = "init" /\ run_time = 0 /\ queue = <<>>)
        ~> (pcC = "done" /\ final_result = <<HexDigest(Sha256New)>>)

\* the collector has finished a run with run_time = 0 without a single pop
C10_Witness ==
    /\ pcC = "done"
    /\ run_time = 0
    /\ consumed = <<>>
    /\ Len(final_result) = 1

\* C11: once the collector has finished, nothing that affects the digest
\* changes any more: the hasher and final_result stay as they are, the hex
\* encoding of the hasher stays the digest stored, and the value
\* run_chaotic_system returned stays the same, whatever the generators put.
C11_DigestStable ==
    /\ [](pcC = "done" => final_result = <<HexDigest(hasher)>>)
    /\ [][pcC = "done" => /\ pcC' = "done"
                          /\ hasher' = hasher
                          /\ HexDigest(hasher') = final_result'[1]]_vars
    /\ [][pcMain = "returned" => pcMain' = "returned" /\ retval' = retval]_vars

\* run_chaotic_system has returned and a generator has put a sample since
C11_Witness ==
    /\ pcMain = "returned"
    /\ retval = HexDigest(hasher)
    /\ \E g \in Generators : putsAfterJoin[g] > 0

\* C12: the orchestrator waits for the collector only: as soon as
\* entropy_collector has finished, the return of run_chaotic_system is
\* enabled, in whatever state the generators are.
C12_WaitsOnlyForCollector ==
    (pcMain = "join" /\ pcC = "done") => ENABLED JoinAndReturn

\* run_chaotic_system has returned while a generator is still in its loop
C12_Witness ==
    /\ pcMain = "returned"
    /\ \E g \in Generators : pcG[g] = "run" /\ step[g] < Steps(g)

\* C13: two calls of entropy_collector that dequeue the same ordered
\* sequence of strings produce the same digest, whatever their run_time,
\* the number of timeouts of queue.get and the origin of the samples.
C13_SameSequenceSameDigest ==
    (pcC = "done" /\ earlier # {}) =>
        \A e \in earlier :
            e.data = DataOf(consumed) => final_result = <<e.digest>>

\* the second call has finished after dequeuing what the first one dequeued,
\* and the two calls had different deadlines
C13_Witness ==
    /\ pcC = "done"
    /\ consumed # <<>>
    /\ \E e \in earlier : e.data = DataOf(consumed) /\ e.run_time # run_time

\* C14: whenever at least one sample was collected, the digest appended and
\* returned is a string of exactly 64 characters, each a lowercase hex digit,
\* however many samples were collected.
C14_DigestFormat ==
    (pcC = "done" /\ consumed # <<>>) =>
        LET d == final_result[1]
        IN /\ Len(d) = 2 * DigestSize
           /\ Len(d) = 64
           /\ \A k \in 1..Len(d) :
                 SubSeq(d, k, k) \in {"0", "1", "2", "3", "4", "5", "6", "7",
                                      "8", "9", "a", "b", "c", "d", "e", "f"}
           /\ pcMain = "returned" => retval = d

\* run_chaotic_system has returned the digest of more than one sample
C14_Witness ==
    /\ pcMain = "returned"
    /\ Len(consumed) > 1
    /\ Len(retval) = 64

\* C15: a queue.get that times out on the empty queue is control flow only:
\* the step that leaves the get happens no earlier than the timeout, leaves
\* the hasher, the queue and final_result as they were, and takes the
\* collector back to its loop condition.
C15_TimeoutIsControlFlow ==
    [][(pcC = "get" /\ QueueEmpty(queue) /\ pcC' # "get") =>
          /\ now >= getDeadline
          /\ pcC' = "check"
          /\ hasher' = hasher
          /\ queue' = queue
          /\ consumed' = consumed
          /\ final_result' = final_result]_vars

\* queue.get has timed out on the empty queue after samples were folded in
C15_Witness ==
    /\ pcC = "get"
    /\ QueueEmpty(queue)
    /\ now >= getDeadline
    /\ consumed # <<>>
    /\ hasher # Sha256New

\* C16: the collector never finalizes early: it leaves its loop only when the
\* deadline has passed and its check finds the queue empty, the digest is
\* appended only after that, and a check made before the deadline always
\* leads to another queue.get, even on an empty queue.
C16_NeverFinalizesEarly ==
    /\ [][(pcC # "final" /\ pcC' = "final") =>
              (pcC = "check" /\ now >= end_time /\ QueueEmpty(queue))]_vars
    /\ [][(Len(final_result') > Len(final_result)) =>
              (pcC = "final" /\ now >= end_time)]_vars
    /\ [][(pcC = "check" /\ now < end_time /\ pcC' # "check") => pcC' = "get"]_vars

\* the digest was appended after a deadline in the future had passed, and a
\* sample put after the collector's last check is in the queue
C16_Witness ==
    /\ pcC = "done"
    /\ run_time > 0
    /\ now >= end_time
    /\ final_result # <<>>
    /\ ~QueueEmpty(queue)

\* C17: a generator's put never blocks: a started generator that has
\* iterations left can always take its next one, whatever the queue holds and
\* whether or not the collector still runs, and under fair scheduling every
\* generator ends after exactly its number of steps.
C17_PutNeverBlocks ==
    /\ [](\A g \in Generators : pcG[g] = "run" => ENABLED GenIterate(g, ""))
    /\ <>[](\A g \in Generators : pcG[g] = "done" /\ step[g] = Steps(g))

\* a generator ended with a put made after the collector had stopped, into
\* a queue that still held a sample
C17_Witness ==
    /\ pcC = "done"
    /\ Len(queue) > 1
    /\ \E g \in Generators : pcG[g] = "done" /\ putsAfterJoin[g] > 0

\* C18: a generator thread that ends with an exception is isolated: its
\* failure changes nothing but that thread, the other generators can go on
\* putting, and the collector still finalizes and run_chaotic_system still
\* returns the digest.
C18_GeneratorFaultIsolated ==
    /\ [][(pcG["walk"] # "failed" /\ pcG'["walk"] = "failed") =>
              /\ \A g \in Generators \ {"walk"} : pcG'[g] = pcG[g]
              /\ UNCHANGED <<step, pushed, queue, collVars, mainVars>>]_vars
    /\ [](pcG["walk"] = "failed" =>
              \A g \in Generators \ {"walk"} :
                  pcG[g] = "run" => ENABLED GenIterate(g, ""))
    /\ <>[](/\ pcMain = "returned"
            /\ pcC = "done"
            /\ final_result # <<>>
            /\ retval = final_result[1]
            /\ retval # None)

\* random_walk_thread failed, the other generators completed all their
\* iterations, and run_chaotic_system returned a digest
C18_Witness ==
    /\ pcG["walk"] = "failed"
    /\ \A g \in Generators \ {"walk"} : pcG[g] = "done" /\ Len(pushed[g]) = Steps(g)
    /\ pcMain = "returned"
    /\ retval # None

\* the samples of generator g among samples, in their order
SamplesOf(g, samples) == SelectSeq(samples, LAMBDA s : s.gen = g)

\* C19: sample conservation: for each generator, the sequence of samples it
\* has put is the samples of it already folded into the hash followed by the
\* samples of it still in the queue; a generator that completed k iterations
\* has put exactly k samples, numbered 1..k, and k is at most its step bound.
C19_SampleConservation ==
    \A g \in Generators :
        /\ pushed[g] = SamplesOf(g, consumed) \o SamplesOf(g, queue)
        /\ Len(pushed[g]) = step[g]
        /\ \A n \in 1..Len(pushed[g]) : pushed[g][n].seq = n /\ pushed[g][n].gen = g
        /\ step[g] <= Steps(g)
        /\ pcG[g] = "done" => step[g] = Steps(g)

\* one sample of the logistic thread is folded, its other one waits in the
\* queue, and samples of the other generators are around them
C19_Witness ==
    /\ Len(SamplesOf("logistic", consumed)) = 1
    /\ Len(SamplesOf("logistic", queue)) = 1
    /\ Len(consumed) > 1
    /\ Len(queue) > 1

\* C20: ownership of the shared state: a step in which a generator iterates
\* changes that generator's own state only and appends its one sample to the
\* queue, leaving the hasher, final_result and the collector alone; a step that
\* removes from the queue or changes the hasher or final_result is a step of
\* the collector; and a step of the collector never appends to the queue and
\* leaves the generators alone.
C20_Ownership ==
    [][/\ (step' # step) =>
             /\ \E g \in Generators :
                   /\ step' = [step EXCEPT ![g] = @ + 1]
                   /\ Len(pushed'[g]) = Len(pushed[g]) + 1
                   /\ pushed' = [pushed EXCEPT ![g] = Append(@, pushed'[g][Len(pushed'[g])])]
                   /\ queue' = Append(queue, pushed'[g][Len(pushed'[g])])
                   /\ \A h \in Generators \ {g} : pcG'[h] = pcG[h]
             /\ UNCHANGED <<collVars, mainVars>>
       /\ (Len(queue') < Len(queue) \/ hasher' # hasher \/ final_result' # final_result) =>
             /\ pcC \in {"init", "get", "final"}
             /\ pcC' # pcC
             /\ UNCHANGED <<genVars, mainVars>>
       /\ (pcC # "idle" /\ pcC' # pcC) =>
             /\ queue' = queue \/ (queue # <<>> /\ queue' = Tail(queue))
             /\ UNCHANGED <<genVars, mainVars>>]_vars

\* the collector has removed samples and changed the hasher while a
\* generator, still running, has samples of its own in the queue
C20_Witness ==
    /\ hasher # Sha256New
    /\ consumed # <<>>
    /\ \E g \in Generators :
          pcG[g] = "run" /\ step[g] > 0 /\ SamplesOf(g, queue) # <<>>

====
